---- MODULE Spec2Model ----
(***************************************************************************)
(* Polaris verification flow (src/app/app/layout.tsx):                      *)
(*   - the POST /api/verify route handler (server side),                    *)
(*   - the PolarisMVP client component (handleFiles, uploadAndVerify,       *)
(*     clearAll) with its in-browser hashing and its mock verifier.         *)
(*                                                                          *)
(* Representation.                                                          *)
(*   bytes        sequences of integers 0..255                              *)
(*   strings      sequences of one-character strings; JavaScript null for   *)
(*                a string is NullStr, null for a File is NoFile            *)
(*   numbers      a score x is the integer x * Scale (Scale = 100 * 2^k),   *)
(*                so every dyadic rational with k fractional bits (the      *)
(*                doubles of the model) and every two-decimal number is     *)
(*                exact; a number returned by toFixed(2) is kept in         *)
(*                hundredths                                                *)
(*   JSON objects records holding exactly the fields the object has         *)
(* The exif field of a result and the previewUrl / dragOver state of the    *)
(* component are presentation only (no handler reads them) and are left     *)
(* out.                                                                     *)
(***************************************************************************)
EXTENDS Integers, Sequences, FiniteSets, TLC

VARIABLES
  now,       \* server: the value Date.now() returns
  reqs,      \* server: the requests being handled, one record per request slot
  file,      \* client state: the selected File, or NoFile
  hash,      \* client state: the hex digest shown for the file, or NullStr
  loading,   \* client state
  result,    \* client state: the report, or NoResult
  error,     \* client state: the error text, or "null"
  hashJobs,  \* client: handleFiles calls waiting on computeSHA256
  uploads    \* client: uploadAndVerify calls in flight, one record per slot

vars == <<now, reqs, file, hash, loading, result, error, hashJobs, uploads>>

serverVars == <<now, reqs>>

clientVars == <<file, hash, loading, result, error, hashJobs, uploads>>

\* ------------------------------------------------------------------ bounds
\* fractional bits of the model's doubles
GridBits == 3
\* files a caller can pick: prefixes of the demo bytes up to this length
MaxFileLen == 0
\* width of the model's digest in bytes (SHA-256 has 32)
DigestBytes == 2
\* the server clock (Date.now()) runs through 0..MaxClock
MaxClock == 1
\* values Math.floor(Math.random() * 1000000) is drawn from: 0..MaxMockId
MaxMockId == 1
\* handleFiles calls that may wait on computeSHA256 at the same time
MaxHashJobs == 2

\* ------------------------------------------------------- strings and bytes
NullStr == <<"null">>
NoFile == <<-1>>

\* JavaScript truthiness of a value of type string | null
TruthyStr(s) == s # NullStr /\ s # <<>>

\* JavaScript truthiness of a value of type File | null (a File is an object)
TruthyFile(f) == f # NoFile

HexDigits == <<"0", "1", "2", "3", "4", "5", "6", "7", "8", "9", "a", "b", "c", "d", "e", "f">>

UpperDigits == <<"0", "1", "2", "3", "4", "5", "6", "7", "8", "9", "A", "B", "C", "D", "E", "F">>

\* Number.prototype.toString(16) of a byte: no leading zero
toString16(x) ==
  IF x < 16 THEN <<HexDigits[x + 1]>>
  ELSE <<HexDigits[(x \div 16) + 1], HexDigits[(x % 16) + 1]>>

\* String.prototype.slice(-2)
sliceLast2(s) == IF Len(s) <= 2 THEN s ELSE SubSeq(s, Len(s) - 1, Len(s))

\* Array.prototype.join("") of a sequence of strings
RECURSIVE join(_)
join(parts) == IF parts = <<>> THEN <<>> ELSE Head(parts) \o join(Tail(parts))

\* faulty encoder: the leading zero of a byte below 16 is dropped
bytesToHexNoPad(buffer) ==
  join([k \in 1..Len(buffer) |-> toString16(buffer[k])])

\* client: ("00" + x.toString(16)).slice(-2) of every byte, joined
bytesToHex(buffer) ==
  join([k \in 1..Len(buffer) |-> sliceLast2(<<"0", "0">> \o toString16(buffer[k]))])

\* server: Hash.digest("hex"), two lowercase hex digits per byte
digestHex(buffer) ==
  join([k \in 1..Len(buffer) |-> <<HexDigits[(buffer[k] \div 16) + 1], HexDigits[(buffer[k] % 16) + 1]>>])

\* upper-case form of a hex string
upperChar(c) ==
  IF \E k \in 1..16 : HexDigits[k] = c
  THEN UpperDigits[CHOOSE k \in 1..16 : HexDigits[k] = c]
  ELSE c

toUpperCase(s) == [k \in 1..Len(s) |-> upperChar(s[k])]

\* SHA-256 stand-in: a deterministic digest of DigestBytes bytes that depends
\* on every byte of the input and on its length
RECURSIVE mix(_, _, _)
mix(bs, acc, mult) ==
  IF bs = <<>> THEN acc
  ELSE mix(Tail(bs), (acc * mult + Head(bs) + 1) % 256, mult)

sha256(bs) == [k \in 1..DigestBytes |-> mix(bs, (7 * k) % 256, 2 * k + 37)]

\* the all-zero digest in hex
zeroHex == [k \in 1..(2 * DigestBytes) |-> "0"]

\* ------------------------------------------------------------------- files
DemoBytes == <<137, 80, 78, 71, 13, 10, 26, 10>>

Files == {SubSeq(DemoBytes, 1, n) : n \in 0..MaxFileLen} \cup {DemoBytes}

\* the files the user of the component picks from: the demo image and a
\* one-byte file
FlowFiles == {DemoBytes, SubSeq(DemoBytes, 1, 1)}

\* what a caller may put in the "hash" field for file f: nothing, the empty
\* string, the right digest in lower and in upper case, the all-zero digest,
\* and the digest of another file
HashFields(f) ==
  {NullStr, <<>>, zeroHex, digestHex(sha256(DemoBytes))}
    \cup (IF f = NoFile THEN {} ELSE {digestHex(sha256(f)), toUpperCase(digestHex(sha256(f)))})

\* ------------------------------------------------------------------ scoring
\* 0.01 in score units; 1.0 is Scale
Hundredth == 2 ^ GridBits

Scale == 100 * Hundredth

\* the literals 0.8 and 0.65 of the label expression
AuthenticCutoff == 80 * Hundredth

UncertainCutoff == 65 * Hundredth

\* faulty scorer: the random part is scaled by 0.4, so scores reach 1.0
RawScoresWide ==
  {x \in (60 * Hundredth)..(100 * Hundredth) : x % 100 = 0}
    \cup {60 * Hundredth, 100 * Hundredth}
    \cup {c + d : c \in {AuthenticCutoff, UncertainCutoff}, d \in {-1, 0, 1}}

\* 0.6 + Math.random() * 0.35 with Math.random() in [0, 1): every double from
\* 0.6 up to 0.95.  The model draws the doubles with GridBits fractional bits
\* (the multiples of 100 units), the two ends, and each cutoff with the double
\* just below and just above it.
RawScores ==
  {x \in (60 * Hundredth)..(95 * Hundredth) : x % 100 = 0}
    \cup {60 * Hundredth, 95 * Hundredth}
    \cup {c + d : c \in {AuthenticCutoff, UncertainCutoff}, d \in {-1, 0, 1}}

\* the scores drawn where the component and the route handler run together
FlowScores == {60 * Hundredth, 95 * Hundredth}

\* Number(x.toFixed(2)), in hundredths: the nearest two-decimal number, the
\* larger one when x is exactly half way
toFixed2(x) == (x + (Hundredth \div 2)) \div Hundredth

\* faulty label: the two comparisons are made in the wrong order
verdictSwapped(randomScore) ==
  IF randomScore > UncertainCutoff THEN "Uncertain"
  ELSE IF randomScore > AuthenticCutoff THEN "Likely Authentic"
  ELSE "Likely AI-generated"

\* faulty label: the comparisons take the cutoff itself into the upper class
verdictAtLeast(randomScore) ==
  IF randomScore >= AuthenticCutoff THEN "Likely Authentic"
  ELSE IF randomScore >= UncertainCutoff THEN "Uncertain"
  ELSE "Likely AI-generated"

\* randomScore > 0.8 ? ... : randomScore > 0.65 ? ... : ...
verdict(randomScore) ==
  IF randomScore > AuthenticCutoff THEN "Likely Authentic"
  ELSE IF randomScore > UncertainCutoff THEN "Uncertain"
  ELSE "Likely AI-generated"

\* ------------------------------------------------------------------- server
Slots == 1..2

Min(S) == CHOOSE x \in S : \A y \in S : x <= y

NoResp == [http |-> 0, body |-> [status |-> "none"]]

\* a request slot: the form fields, the handler's position and response, the
\* steps of the handler the request has gone through, and the handler's
\* randomScore (0 until it is drawn)
IdleReq ==
  [pc |-> "idle", file |-> NoFile, hash |-> NullStr, resp |-> NoResp,
   stages |-> <<>>, randomScore |-> 0]

\* a request as POST is called with it
newRequest(f, h) ==
  [pc |-> "received", file |-> f, hash |-> h, resp |-> NoResp,
   stages |-> <<"Received">>, randomScore |-> 0]

\* faulty order: the score is drawn before the integrity gate is consulted
verifyStagesScoreFirst(mismatch) ==
  IF mismatch
  THEN <<"DigestComputed", "Scored", "IntegrityChecked", "Rejected", "Returned">>
  ELSE <<"DigestComputed", "Scored", "IntegrityChecked", "RecordBuilt", "Returned">>

\* the steps POST takes once it has the file's bytes: the digest (line 40),
\* the gate (42), then either the error response (43-46) or the score
\* (50-52), the result (54-62) and the response (64)
verifyStages(mismatch) ==
  IF mismatch
  THEN <<"DigestComputed", "IntegrityChecked", "Rejected", "Returned">>
  ELSE <<"DigestComputed", "IntegrityChecked", "Scored", "RecordBuilt", "Returned">>

\* NextResponse.json(body, { status }) ; the default status is 200
jsonResponse(body, status) == [http |-> status, body |-> body]

\* faulty gate: the two digests are compared without regard to case, and the
\* claimed spelling is still the one returned
hashMismatchIgnoreCase(clientHash, serverHash) ==
  TruthyStr(clientHash) /\ toUpperCase(clientHash) # toUpperCase(serverHash)

\* the integrity gate: clientHash && clientHash !== serverHash
hashMismatch(clientHash, serverHash) == TruthyStr(clientHash) /\ clientHash # serverHash

\* faulty result: the polarisId field is left out
postResultNoId(clientHash, serverHash, randomScore, t) ==
  [status |-> "ok",
   authenticityScore |-> toFixed2(randomScore),
   aiProbability |-> toFixed2(Scale - randomScore),
   hash |-> IF TruthyStr(clientHash) THEN clientHash ELSE serverHash,
   message |-> verdict(randomScore)]

\* the result object of POST
postResult(clientHash, serverHash, randomScore, t) ==
  [status |-> "ok",
   polarisId |-> [prefix |-> "PLS-", n |-> t],
   authenticityScore |-> toFixed2(randomScore),
   aiProbability |-> toFixed2(Scale - randomScore),
   hash |-> IF TruthyStr(clientHash) THEN clientHash ELSE serverHash,
   message |-> verdict(randomScore)]

\* POST, from the call to the end of the "no file" check
POSTParse(s) ==
  /\ reqs[s].pc = "received"
  /\ reqs' = [reqs EXCEPT ![s] =
       IF ~TruthyFile(reqs[s].file)
       THEN [@ EXCEPT !.pc = "returned",
                      !.stages = @ \o <<"Returned">>,
                      !.resp = jsonResponse([status |-> "error", message |-> "No file uploaded"], 400)]
       ELSE [@ EXCEPT !.pc = "buffering"]]
  /\ UNCHANGED <<now, clientVars>>

\* POST, from the arrival of the file's bytes to the response
POSTVerify(s, randomScore) ==
  /\ reqs[s].pc = "buffering"
  /\ LET clientHash == reqs[s].hash
         serverHash == digestHex(sha256(reqs[s].file))
         mismatch == hashMismatch(clientHash, serverHash)
     IN reqs' = [reqs EXCEPT ![s] = [@ EXCEPT
          !.pc = "returned",
          !.stages = @ \o verifyStages(mismatch),
          !.randomScore = IF mismatch THEN 0 ELSE randomScore,
          !.resp =
            IF mismatch
            THEN jsonResponse([status |-> "error", message |-> "Hash mismatch - file may be tampered"], 400)
            ELSE jsonResponse(postResult(clientHash, serverHash, randomScore, now), 200)]]
  /\ UNCHANGED <<now, clientVars>>

\* the clock advances
Tick ==
  /\ now < MaxClock
  /\ now' = now + 1
  /\ UNCHANGED <<reqs, clientVars>>

\* a caller other than the component posts a form with the given fields
Send(s, f, h) ==
  /\ reqs[s].pc = "idle"
  /\ reqs' = [reqs EXCEPT ![s] = newRequest(f, h)]
  /\ UNCHANGED <<now, clientVars>>

\* that caller takes the response
Receive(s) ==
  /\ reqs[s].pc = "returned"
  /\ reqs' = [reqs EXCEPT ![s] = IdleReq]
  /\ UNCHANGED <<now, clientVars>>

\* ------------------------------------------------------------------- client
NoResult == [status |-> "none"]

\* the Error caught by the catch of uploadAndVerify: new Error("Backend error: "
\* + resp.status), or the TypeError fetch rejects with
NoError == [message |-> "", status |-> 0]

BackendError(status) == [message |-> "Backend error: ", status |-> status]

NetworkError == [message |-> "Failed to fetch", status |-> 0]

NoUpload == [stage |-> "none", file |-> NoFile, hash |-> NullStr, e |-> NoError, randomScore |-> 0]

\* computeSHA256: the hex form of the SHA-256 of the file's bytes
computeSHA256(f) == bytesToHex(sha256(f))

\* the object mockVerify resolves with
mockResult(h, randomScore, n) ==
  [status |-> "ok",
   polarisId |-> [prefix |-> "PLS-MOCK-", n |-> n],
   authenticityScore |-> toFixed2(randomScore),
   aiProbability |-> toFixed2(Scale - randomScore),
   hash |-> h,
   message |-> verdict(randomScore)]

\* Response.ok
respOk(resp) == resp.http >= 200 /\ resp.http <= 299

\* the value appended to the form for the "hash" field, NullStr for none
formHash(h) == IF TruthyStr(h) THEN h ELSE NullStr

\* handleFiles([f]) up to the await of computeSHA256
handleFiles(f) ==
  /\ Len(hashJobs) < MaxHashJobs
  /\ error' = "null"
  /\ result' = NoResult
  /\ file' = f
  /\ loading' = TRUE
  /\ hashJobs' = Append(hashJobs, f)
  /\ UNCHANGED <<hash, uploads, serverVars>>

\* the rest of handleFiles when computeSHA256 resolves
hashDone(k) ==
  /\ k \in 1..Len(hashJobs)
  /\ hash' = computeSHA256(hashJobs[k])
  /\ loading' = FALSE
  /\ hashJobs' = SubSeq(hashJobs, 1, k - 1) \o SubSeq(hashJobs, k + 1, Len(hashJobs))
  /\ UNCHANGED <<file, result, error, uploads, serverVars>>

\* the rest of handleFiles when computeSHA256 rejects
hashFail(k) ==
  /\ k \in 1..Len(hashJobs)
  /\ error' = "Failed to compute file hash"
  /\ hash' = NullStr
  /\ loading' = FALSE
  /\ hashJobs' = SubSeq(hashJobs, 1, k - 1) \o SubSeq(hashJobs, k + 1, Len(hashJobs))
  /\ UNCHANGED <<file, result, uploads, serverVars>>

\* uploadAndVerify with no file selected
uploadNoFile ==
  /\ ~TruthyFile(file)
  /\ error' = "No file selected"
  /\ result' = NoResult
  /\ UNCHANGED <<file, hash, loading, hashJobs, uploads, serverVars>>

\* uploadAndVerify from the click on the enabled button to the await of fetch
uploadAndVerify(s) ==
  /\ TruthyFile(file)
  /\ ~loading
  /\ uploads[s].stage = "none"
  /\ reqs[s].pc = "idle"
  /\ error' = "null"
  /\ result' = NoResult
  /\ loading' = TRUE
  /\ uploads' = [uploads EXCEPT ![s] = [stage |-> "fetching", file |-> file, hash |-> hash, e |-> NoError, randomScore |-> 0]]
  /\ reqs' = [reqs EXCEPT ![s] = newRequest(file, formHash(hash))]
  /\ UNCHANGED <<file, hash, hashJobs, now>>

\* fetch resolves with an ok response: setResult(json), then finally
fetchOk(s) ==
  /\ uploads[s].stage = "fetching"
  /\ reqs[s].pc = "returned"
  /\ respOk(reqs[s].resp)
  /\ result' = reqs[s].resp.body
  /\ loading' = FALSE
  /\ uploads' = [uploads EXCEPT ![s] = NoUpload]
  /\ reqs' = [reqs EXCEPT ![s] = IdleReq]
  /\ UNCHANGED <<file, hash, error, hashJobs, now>>

\* fetch resolves with a response that is not ok: throw, catch, mockVerify
\* draws its score and starts its timer
fetchNotOk(s, randomScore) ==
  /\ uploads[s].stage = "fetching"
  /\ reqs[s].pc = "returned"
  /\ ~respOk(reqs[s].resp)
  /\ uploads' = [uploads EXCEPT ![s] = [@ EXCEPT !.stage = "mock", !.e = BackendError(reqs[s].resp.http),
                                                  !.randomScore = randomScore]]
  /\ reqs' = [reqs EXCEPT ![s] = IdleReq]
  /\ UNCHANGED <<file, hash, loading, result, error, hashJobs, now>>

\* fetch rejects (the backend is not reachable): catch, mockVerify draws its
\* score and starts its timer
fetchReject(s, randomScore) ==
  /\ uploads[s].stage = "fetching"
  /\ uploads' = [uploads EXCEPT ![s] = [@ EXCEPT !.stage = "mock", !.e = NetworkError,
                                                  !.randomScore = randomScore]]
  /\ reqs' = [reqs EXCEPT ![s] = IdleReq]
  /\ UNCHANGED <<file, hash, loading, result, error, hashJobs, now>>

\* faulty completion: the finally block is missing, loading stays as it is
mockTimerKeepsLoading(s, n) ==
  /\ uploads[s].stage = "mock"
  /\ result' = mockResult(uploads[s].hash, uploads[s].randomScore, n)
  /\ uploads' = [uploads EXCEPT ![s] = NoUpload]
  /\ UNCHANGED <<file, hash, loading, error, hashJobs, serverVars>>

\* the timer of mockVerify fires: setResult(mock), then finally
mockTimer(s, n) ==
  /\ uploads[s].stage = "mock"
  /\ result' = mockResult(uploads[s].hash, uploads[s].randomScore, n)
  /\ loading' = FALSE
  /\ uploads' = [uploads EXCEPT ![s] = NoUpload]
  /\ UNCHANGED <<file, hash, error, hashJobs, serverVars>>

clearAll ==
  /\ file' = NoFile
  /\ hash' = NullStr
  /\ result' = NoResult
  /\ error' = "null"
  /\ UNCHANGED <<loading, hashJobs, uploads, serverVars>>

\* ----------------------------------------------------------- specifications
Init ==
  /\ now = 0
  /\ reqs = [s \in Slots |-> IdleReq]
  /\ file = NoFile
  /\ hash = NullStr
  /\ loading = FALSE
  /\ result = NoResult
  /\ error = "null"
  /\ hashJobs = <<>>
  /\ uploads = [s \in Slots |-> NoUpload]

\* the route handler under arbitrary callers
NextPost ==
  \/ Tick
  \/ \E s \in Slots : \E f \in Files \cup {NoFile} : \E h \in HashFields(f) : Send(s, f, h)
  \/ \E s \in Slots : POSTParse(s)
  \/ \E s \in Slots : \E r \in RawScores : POSTVerify(s, r)
  \/ \E s \in Slots : Receive(s)

SpecPost == Init /\ [][NextPost]_vars

\* the component talking to the route handler
Next ==
  \/ \E f \in FlowFiles : handleFiles(f)
  \/ \E k \in 1..MaxHashJobs : hashDone(k)
  \/ \E k \in 1..MaxHashJobs : hashFail(k)
  \/ uploadNoFile
  \/ \E s \in Slots : uploadAndVerify(s)
  \/ \E s \in Slots : POSTParse(s)
  \/ \E s \in Slots : \E r \in FlowScores : POSTVerify(s, r)
  \/ \E s \in Slots : fetchOk(s)
  \/ \E s \in Slots : \E r \in FlowScores : fetchNotOk(s, r)
  \/ \E s \in Slots : \E r \in FlowScores : fetchReject(s, r)
  \/ \E s \in Slots : \E n \in 0..MaxMockId : mockTimer(s, n)
  \/ clearAll

Spec == Init /\ [][Next]_vars

\* the demo: the user loads only the demo image, the scorers of the route
\* handler and of the mock verifier draw every score
NextDemo ==
  \/ handleFiles(DemoBytes)
  \/ \E k \in 1..MaxHashJobs : hashDone(k)
  \/ \E s \in Slots : uploadAndVerify(s)
  \/ \E s \in Slots : POSTParse(s)
  \/ \E s \in Slots : \E r \in RawScores : POSTVerify(s, r)
  \/ \E s \in Slots : fetchOk(s)
  \/ \E s \in Slots : \E r \in RawScores : fetchReject(s, r)
  \/ \E s \in Slots : \E n \in 0..MaxMockId : mockTimer(s, n)
  \/ clearAll

SpecDemo == Init /\ [][NextDemo]_vars

\* one upload at a time, with one score and one mock id to draw: the
\* component and the route handler when the started request is handled, the
\* settled fetch is taken up and the mock timer fires
LiveSlot == Min(Slots)

LiveScores == {95 * Hundredth}

NextLive ==
  \/ \E f \in FlowFiles : handleFiles(f)
  \/ \E k \in 1..MaxHashJobs : hashDone(k)
  \/ uploadNoFile
  \/ uploadAndVerify(LiveSlot)
  \/ POSTParse(LiveSlot)
  \/ \E r \in LiveScores : POSTVerify(LiveSlot, r)
  \/ fetchOk(LiveSlot)
  \/ \E r \in LiveScores : fetchNotOk(LiveSlot, r)
  \/ \E r \in LiveScores : fetchReject(LiveSlot, r)
  \/ mockTimer(LiveSlot, 0)
  \/ clearAll

Fairness ==
  /\ WF_vars(POSTParse(LiveSlot))
  /\ WF_vars(\E r \in LiveScores : POSTVerify(LiveSlot, r))
  /\ WF_vars(fetchOk(LiveSlot))
  /\ WF_vars(\E r \in LiveScores : fetchNotOk(LiveSlot, r))
  /\ WF_vars(mockTimer(LiveSlot, 0))

SpecLive == Init /\ [][NextLive]_vars /\ Fairness

\* ------------------------------------------------------------------- claims
\* the digest the route handler computes for the request in slot s
serverHashOf(s) == digestHex(sha256(reqs[s].file))

mismatchResponse ==
  jsonResponse([status |-> "error", message |-> "Hash mismatch - file may be tampered"], 400)

\* C1: every request whose "hash" field holds a digest different from the
\* server-computed hex digest of the uploaded bytes is answered with HTTP 400
\* and the hash-mismatch error, which carries no id, score or label.
C1_MismatchRejected ==
  \A s \in Slots :
    (/\ reqs[s].pc = "returned"
     /\ TruthyFile(reqs[s].file)
     /\ reqs[s].hash # NullStr
     /\ reqs[s].hash # serverHashOf(s))
    => reqs[s].resp = mismatchResponse

\* C2: an upload whose request the integrity gate rejected (the 400 the
\* component's own request can get) never ends with a status=ok report being
\* set as the component's result.
C2_NoScoreAfterMismatch ==
  [][\A s \in Slots :
       (uploads[s].stage = "mock" /\ uploads[s].e = BackendError(400))
       => ~(uploads'[s].stage = "none" /\ result'.status = "ok")]_vars

\* C3: two requests with the same bytes get the same polarisId.
C3_IdempotentId ==
  \A s, t \in Slots :
    (/\ reqs[s].pc = "returned" /\ reqs[s].resp.body.status = "ok"
     /\ reqs[t].pc = "returned" /\ reqs[t].resp.body.status = "ok"
     /\ reqs[s].file = reqs[t].file)
    => reqs[s].resp.body.polarisId = reqs[t].resp.body.polarisId

\* C4: a claimed digest that equals the server-computed digest up to the case
\* of its hex digits, and has its length, passes the gate: the request is
\* scored and answered status=ok.
C4_CaseInsensitiveGate ==
  \A s \in Slots :
    (/\ reqs[s].pc = "returned"
     /\ TruthyFile(reqs[s].file)
     /\ Len(reqs[s].hash) = Len(serverHashOf(s))
     /\ toUpperCase(reqs[s].hash) = toUpperCase(serverHashOf(s)))
    => reqs[s].resp.body.status = "ok"

\* C5: in every status=ok result, of the route handler or of the mock
\* verifier, the returned authenticityScore and aiProbability sum to 1.
C5_ProbabilityComplement ==
  /\ \A s \in Slots :
       (reqs[s].pc = "returned" /\ reqs[s].resp.body.status = "ok")
       => reqs[s].resp.body.authenticityScore + reqs[s].resp.body.aiProbability = 100
  /\ result.status = "ok" => result.authenticityScore + result.aiProbability = 100

\* the label the thresholds give a returned score (in hundredths), 0.80 and
\* 0.65 both resolved to Uncertain
labelOfReturned(score) ==
  IF score > 80 THEN "Likely Authentic"
  ELSE IF score >= 65 THEN "Uncertain"
  ELSE "Likely AI-generated"

\* C6: in every status=ok result the message is the label the thresholds give
\* the result's own authenticityScore, 0.80 and 0.65 both being Uncertain.
C6_LabelConsistency ==
  /\ \A s \in Slots :
       (reqs[s].pc = "returned" /\ reqs[s].resp.body.status = "ok")
       => reqs[s].resp.body.message = labelOfReturned(reqs[s].resp.body.authenticityScore)
  /\ result.status = "ok" => result.message = labelOfReturned(result.authenticityScore)

\* the labels a result with the returned score (in hundredths) can carry when
\* the label is the thresholds applied to the score before it is rounded
labelsOfRounded(score) ==
  IF score > 80 THEN {"Likely Authentic"}
  ELSE IF score = 80 THEN {"Uncertain", "Likely Authentic"}
  ELSE IF score > 65 THEN {"Uncertain"}
  ELSE IF score = 65 THEN {"Likely AI-generated", "Uncertain"}
  ELSE {"Likely AI-generated"}

\* C6 as amended: the message is the label the thresholds (above 0.80
\* Authentic, above 0.65 Uncertain, else Synthetic) give the score before it
\* is rounded to two decimals: it is the label of the returned score unless
\* that is 0.80 (Uncertain or Authentic) or 0.65 (Synthetic or Uncertain).
C6_LabelOfUnroundedScore ==
  /\ \A s \in Slots :
       (reqs[s].pc = "returned" /\ reqs[s].resp.body.status = "ok")
       => reqs[s].resp.body.message \in labelsOfRounded(reqs[s].resp.body.authenticityScore)
  /\ result.status = "ok" => result.message \in labelsOfRounded(result.authenticityScore)

\* the route handler has returned 0.80 as Likely Authentic while the report
\* on screen, a mock one, shows 0.65 as Uncertain
C6_Witness ==
  /\ \E s \in Slots :
       /\ reqs[s].pc = "returned"
       /\ reqs[s].resp.body.status = "ok"
       /\ reqs[s].resp.body.authenticityScore = 80
       /\ reqs[s].resp.body.message = "Likely Authentic"
  /\ result.status = "ok"
  /\ result.polarisId.prefix = "PLS-MOCK-"
  /\ result.authenticityScore = 65
  /\ result.message = "Uncertain"

\* C7: a request whose file has zero bytes is answered status=error.
C7_EmptyRejected ==
  \A s \in Slots :
    (reqs[s].pc = "returned" /\ reqs[s].file = <<>>)
    => reqs[s].resp.body.status = "error"

\* C8: every status=ok response returns the server-computed digest of the
\* uploaded bytes as its hash, and a request with a file and no claimed digest
\* is answered status=ok with that digest.
C8_AuthoritativeDigest ==
  \A s \in Slots :
    reqs[s].pc = "returned" =>
      /\ reqs[s].resp.body.status = "ok" => reqs[s].resp.body.hash = serverHashOf(s)
      /\ (TruthyFile(reqs[s].file) /\ reqs[s].hash = NullStr)
           => (reqs[s].resp.body.status = "ok" /\ reqs[s].resp.body.hash = serverHashOf(s))

\* a status=ok response to a request that supplied a claimed digest, and one
\* to a request that supplied none
C8_Witness ==
  /\ \E s \in Slots :
       reqs[s].pc = "returned" /\ reqs[s].resp.body.status = "ok" /\ TruthyStr(reqs[s].hash)
  /\ \E s \in Slots :
       reqs[s].pc = "returned" /\ reqs[s].resp.body.status = "ok" /\ reqs[s].hash = NullStr

\* the upload in slot s sends a non-empty file with the digest computeSHA256
\* gives for it
honestUpload(s) ==
  /\ uploads[s].stage = "fetching"
  /\ Len(uploads[s].file) > 0
  /\ uploads[s].hash = computeSHA256(uploads[s].file)
  /\ reqs[s].file = uploads[s].file
  /\ reqs[s].hash = uploads[s].hash

\* C9: an upload of a non-empty file with the digest computeSHA256 gives for
\* it is answered status=ok, and the hash of the response is that digest.
C9_HonestAccepted ==
  \A s \in Slots :
    (honestUpload(s) /\ reqs[s].pc = "returned")
    => (/\ reqs[s].resp.http = 200
        /\ reqs[s].resp.body.status = "ok"
        /\ reqs[s].resp.body.hash = uploads[s].hash)

\* an honest upload of the demo image (its digest has a byte below 16) has
\* been answered
C9_Witness ==
  \E s \in Slots :
    honestUpload(s) /\ reqs[s].pc = "returned" /\ uploads[s].file = DemoBytes

\* C10: a mock result is delivered only for an upload whose fetch failed at
\* the network level, never for one the backend answered with an error.
C10_MockOnlyWhenUnreachable ==
  [][\A s \in Slots :
       (uploads[s].stage = "mock" /\ uploads'[s].stage = "none")
       => uploads[s].e = NetworkError]_vars

\* C11: a response carries the id and digest fields exactly when its status
\* is ok, and the message field exactly when its status is error.
C11_ResponseShape ==
  \A s \in Slots :
    reqs[s].pc = "returned" =>
      /\ ("polarisId" \in DOMAIN reqs[s].resp.body) <=> (reqs[s].resp.body.status = "ok")
      /\ ("hash" \in DOMAIN reqs[s].resp.body) <=> (reqs[s].resp.body.status = "ok")
      /\ ("message" \in DOMAIN reqs[s].resp.body) <=> (reqs[s].resp.body.status = "error")

\* C11 as amended: a response carries the polarisId and hash fields exactly
\* when its status is ok; every response carries a message field, the error
\* text when the status is error and the verdict when it is ok.
C11_IdAndHashIffOk ==
  \A s \in Slots :
    reqs[s].pc = "returned" =>
      /\ reqs[s].resp.body.status \in {"ok", "error"}
      /\ ("polarisId" \in DOMAIN reqs[s].resp.body) <=> (reqs[s].resp.body.status = "ok")
      /\ ("hash" \in DOMAIN reqs[s].resp.body) <=> (reqs[s].resp.body.status = "ok")
      /\ "message" \in DOMAIN reqs[s].resp.body
      /\ reqs[s].resp.body.status = "error"
           => reqs[s].resp.body.message \in {"No file uploaded", "Hash mismatch - file may be tampered"}
      /\ reqs[s].resp.body.status = "ok"
           => reqs[s].resp.body.message \in {"Likely Authentic", "Uncertain", "Likely AI-generated"}

\* an ok response and an error response are both at hand
C11_Witness ==
  \E s, t \in Slots :
    /\ reqs[s].pc = "returned" /\ reqs[s].resp.body.status = "ok"
    /\ reqs[t].pc = "returned" /\ reqs[t].resp.body.status = "error"

\* C12: every status=ok result of the route handler returns an
\* authenticityScore within 0.60..0.95 and an aiProbability within 0.05..0.40.
C12_ScoreRange ==
  \A s \in Slots :
    (reqs[s].pc = "returned" /\ reqs[s].resp.body.status = "ok")
    => (/\ reqs[s].resp.body.authenticityScore \in 60..95
        /\ reqs[s].resp.body.aiProbability \in 5..40)

\* the two ends of the range have been returned
C12_Witness ==
  \E s, t \in Slots :
    /\ reqs[s].pc = "returned" /\ reqs[s].resp.body.status = "ok"
    /\ reqs[s].resp.body.authenticityScore = 95 /\ reqs[s].resp.body.aiProbability = 5
    /\ reqs[t].pc = "returned" /\ reqs[t].resp.body.status = "ok"
    /\ reqs[t].resp.body.authenticityScore = 60 /\ reqs[t].resp.body.aiProbability = 40

\* C14: two accepted requests whose bytes differ get different polarisIds.
C14_DistinctIds ==
  \A s, t \in Slots :
    (/\ reqs[s].pc = "returned" /\ reqs[s].resp.body.status = "ok"
     /\ reqs[t].pc = "returned" /\ reqs[t].resp.body.status = "ok"
     /\ reqs[s].file # reqs[t].file)
    => reqs[s].resp.body.polarisId # reqs[t].resp.body.polarisId

\* the two paths of the per-request state machine
passPath == <<"Received", "DigestComputed", "IntegrityChecked", "Scored", "RecordBuilt", "Returned">>

failPath == <<"Received", "DigestComputed", "IntegrityChecked", "Rejected", "Returned">>

\* the path of a request without a file
noFilePath == <<"Received", "Returned">>

\* C13: every request POST has answered went Received, DigestComputed,
\* IntegrityChecked and then Scored, RecordBuilt, Returned or Rejected,
\* Returned.
C13_StateMachine ==
  \A s \in Slots :
    reqs[s].pc = "returned" => reqs[s].stages \in {passPath, failPath}

\* C13 as amended: every request that carries a file goes Received,
\* DigestComputed, IntegrityChecked and then Scored, RecordBuilt, Returned
\* (answered ok) or Rejected, Returned (answered with the mismatch error); a
\* request without a file goes from Received straight to Returned with the
\* "No file uploaded" error.  A request is answered once, is scored only after
\* the gate has passed, and is never scored once rejected.
C13_StateMachineWithFile ==
  \A s \in Slots :
    /\ reqs[s].pc = "idle" => reqs[s].stages = <<>>
    /\ reqs[s].pc \in {"received", "buffering"} => reqs[s].stages = <<"Received">>
    /\ reqs[s].pc = "returned" =>
         /\ TruthyFile(reqs[s].file) => reqs[s].stages \in {passPath, failPath}
         /\ ~TruthyFile(reqs[s].file) =>
              (reqs[s].stages = noFilePath /\ reqs[s].resp.body.message = "No file uploaded")
         /\ reqs[s].stages = passPath <=> reqs[s].resp.body.status = "ok"
         /\ reqs[s].stages = failPath <=> reqs[s].resp = mismatchResponse
         /\ reqs[s].stages = failPath => reqs[s].randomScore = 0
    /\ Cardinality({k \in 1..Len(reqs[s].stages) : reqs[s].stages[k] = "Returned"})
         = (IF reqs[s].pc = "returned" THEN 1 ELSE 0)
    /\ \A k \in 1..Len(reqs[s].stages) :
         reqs[s].stages[k] = "Scored" =>
           /\ \E j \in 1..(k - 1) : reqs[s].stages[j] = "IntegrityChecked"
           /\ \A j \in 1..Len(reqs[s].stages) : reqs[s].stages[j] # "Rejected"

\* one request has been scored and answered, another rejected by the gate
C13_Witness ==
  \E s, t \in Slots :
    /\ reqs[s].pc = "returned" /\ reqs[s].stages = passPath
    /\ reqs[t].pc = "returned" /\ reqs[t].stages = failPath

\* the verdict the claim gives a raw score
claimedVerdict(x) ==
  IF 100 * x > 80 * Scale THEN "Likely Authentic"
  ELSE IF 100 * x > 65 * Scale THEN "Uncertain"
  ELSE "Likely AI-generated"

\* C15: the verdict is Authentic iff the raw score is above 0.80, Uncertain
\* iff it is above 0.65 and at most 0.80, Synthetic iff it is at most 0.65, in
\* the route handler's responses and in the results of the mock verifier.
C15_RawThresholds ==
  /\ [](\A s \in Slots :
         (reqs[s].pc = "returned" /\ reqs[s].resp.body.status = "ok")
         => reqs[s].resp.body.message = claimedVerdict(reqs[s].randomScore))
  /\ [][\A s \in Slots :
          (uploads[s].stage = "mock" /\ uploads'[s].stage = "none")
          => result'.message = claimedVerdict(uploads[s].randomScore)]_vars

\* the handler has answered Uncertain for a raw score of exactly 0.80 while
\* the report on screen, a mock one, is Likely AI-generated
C15_Witness ==
  /\ \E s \in Slots :
       /\ reqs[s].pc = "returned"
       /\ reqs[s].resp.body.status = "ok"
       /\ reqs[s].randomScore = AuthenticCutoff
       /\ reqs[s].resp.body.message = "Uncertain"
  /\ result.status = "ok"
  /\ result.polarisId.prefix = "PLS-MOCK-"
  /\ result.message = "Likely AI-generated"

\* C16: once no hash computation is in flight, the hash state of a selected
\* file is null or the SHA-256 of that file, and an upload never carries a file with the
\* hash of another file.
C16_HashMatchesFile ==
  /\ (hashJobs = <<>> /\ TruthyFile(file)) =>
       (hash = NullStr \/ hash = computeSHA256(file))
  /\ \A s \in Slots :
       uploads[s].stage # "none" =>
         (uploads[s].hash = NullStr \/ uploads[s].hash = computeSHA256(uploads[s].file))

\* C17: an upload that completes sets the result only if the file it was
\* started for is still the selected file.
C17_NoStaleReport ==
  [][\A s \in Slots :
       (uploads[s].stage # "none" /\ uploads'[s].stage = "none" /\ result'.status # "none")
       => (TruthyFile(file') /\ file' = uploads[s].file)]_vars

\* C18: while a hash computation or an upload is in flight, loading is true.
C18_LoadingTracksWork ==
  (hashJobs # <<>> \/ \E s \in Slots : uploads[s].stage # "none") => loading

\* C19: every upload started with a file selected finishes, and the step that
\* finishes it sets loading to false and result to a report; a call with no
\* file selected sets error to "No file selected", leaves result null and
\* sends no request.
C19_UploadCompletes ==
  /\ \A s \in Slots : (uploads[s].stage # "none") ~> (uploads[s].stage = "none")
  /\ [][\A s \in Slots :
          (uploads[s].stage # "none" /\ uploads'[s].stage = "none")
          => (loading' = FALSE /\ result'.status = "ok")]_vars
  /\ [][(error # "No file selected" /\ error' = "No file selected")
          => (/\ ~TruthyFile(file)
              /\ result' = NoResult
              /\ reqs' = reqs
              /\ uploads' = uploads)]_vars
  /\ [][\A s \in Slots :
          (uploads[s].stage = "none" /\ uploads'[s].stage # "none") => TruthyFile(file)]_vars

\* an upload that fell back to the mock verifier has finished: its report is
\* on screen for the selected file, nothing is loading, no upload is in flight
C19_Witness ==
  /\ \A s \in Slots : uploads[s].stage = "none"
  /\ ~loading
  /\ result.status = "ok"
  /\ result.polarisId.prefix = "PLS-MOCK-"
  /\ TruthyFile(file)

====
